---- MODULE Spec2Model ----
(***************************************************************************)
(* A model of the cluster lifecycle commands of dcos-e2e:                  *)
(*   - `upgrade` of the Docker backend CLI                                 *)
(*       src/src/dcos_e2e_cli/dcos_docker/commands/upgrade.py              *)
(*   - `get_install_variant`                                               *)
(*       src/src/dcos_e2e_cli/common/variants.py                           *)
(*   - `get_node` / `get_nodes` of the Vagrant backend CLI                 *)
(*       src/src/dcos_e2e_cli/dcos_vagrant/commands/_nodes.py              *)
(* Specification Spec is one run of the `upgrade` command; specification   *)
(* SpecNodes is node resolution against a Vagrant cluster.                 *)
(***************************************************************************)
EXTENDS Integers, Sequences, FiniteSets, TLC

(***************************************************************************)
(* Bounds of the model.                                                    *)
(***************************************************************************)
MaxMasters == 2
MaxAgents == 2
MaxPublicAgents == 1
MaxBudget == 3
MaxFails == 3

(***************************************************************************)
(* Values.                                                                 *)
(***************************************************************************)
MASTER == "MASTER"
AGENT == "AGENT"
PUBLIC_AGENT == "PUBLIC_AGENT"
Role == {MASTER, AGENT, PUBLIC_AGENT}

SSH == "SSH"
DOCKER_EXEC == "DOCKER_EXEC"
Transport == {DOCKER_EXEC, SSH}

OSS == "OSS"
ENTERPRISE == "ENTERPRISE"
DCOSVariant == {OSS, ENTERPRISE}

VariantChoices == {"auto", "oss", "enterprise"}

ClusterIds == {"default", "other"}

\* What the installer artifact on disk is: an installer whose metadata marks
\* it OSS or ENTERPRISE, one whose metadata cannot be read, or one whose
\* unpack subprocess fails.
InstallerKinds == {"oss", "enterprise", "unreadable", "corrupt"}

NoNode == 0
NoError == [type |-> "none"]
NoVariant == "none"
NoInstaller == "None"

VARIABLES
    \* ---- inputs of `upgrade` (the click options and arguments)
    cluster_id,            \* --cluster-id
    transport,             \* --transport
    variant,               \* --variant
    wait_for_dcos,         \* --wait-for-dcos
    installer,             \* what the installer argument points to
    \* ---- the environment
    containers,            \* backend resource map: cluster id -> role sets
    workspace,             \* state of workspace_dir: empty, used, removed
    \* ---- the run of `upgrade`
    pc,                    \* position in upgrade()
    cluster,               \* cluster_containers.cluster, once attached
    dcos_variant,          \* result of get_install_variant
    detect_calls,          \* calls of get_dcos_installer_details
    variant_log,           \* visible effects of get_install_variant, in order
    dcos_config,           \* result of get_config
    role_idx,              \* index in the (nodes, role) tuple of the outer for
    pending,               \* nodes of the current role not yet visited
    inflight,              \* node whose upgrade_dcos_from_path is running
    calls,                 \* log of upgrade_dcos_from_path calls and outcomes
    http_checks,           \* local of upgrade(), upgrade.py line 102
    wait,                  \* the readiness wait of run_post_install_steps
    error,                 \* the exception upgrade() ended with, if any
    steps,                 \* the calls upgrade() has made, in program order
    \* ---- node resolution against a Vagrant cluster
    vm_cluster_id,         \* the id of the Vagrant cluster
    cluster_vms,           \* ClusterVMs: the VMs of the cluster, by role
    resolution,            \* the last get_node / get_nodes call and its outcome
    \* ---- the options that feed get_config
    extra_config_file,     \* the file given as --extra-config, if any
    extra_config,          \* the mapping the option callback returned
    security_mode,         \* --security-mode, or "None"
    license_key,           \* --license-key, or "None"
    \* ---- destroy and destroy-list
    destroy_calls,         \* the destroy / destroy-list runs, in order
    destroy_error,         \* the error the last run ended with, if any
    \* ---- the role-count options
    count_options,         \* --masters, --agents, --public-agents as typed
    counts                 \* what click made of them, option by option

upgradeVars == <<cluster_id, transport, variant, wait_for_dcos, installer,
                 containers, workspace, pc, cluster, dcos_variant,
                 detect_calls, variant_log, dcos_config, role_idx, pending,
                 inflight, calls, http_checks, wait, error, steps>>

nodesVars == <<vm_cluster_id, cluster_vms, resolution>>

optionVars == <<extra_config_file, extra_config, security_mode, license_key>>

destroyVars == <<destroy_calls, destroy_error>>

countVars == <<count_options, counts>>

vars == <<upgradeVars, nodesVars, optionVars, destroyVars, countVars>>

(***************************************************************************)
(* Cluster topologies.  Nodes are numbered; a cluster with m masters, a    *)
(* agents and p public agents has nodes 1..m, m+1..m+a and m+a+1..m+a+p.   *)
(***************************************************************************)
Topology(m, a, p) ==
    [masters |-> 1..m,
     agents |-> (m + 1)..(m + a),
     public_agents |-> (m + a + 1)..(m + a + p)]

Topologies ==
    {Topology(m, a, p) : m \in 1..MaxMasters,
                         a \in 0..MaxAgents,
                         p \in 0..MaxPublicAgents}

NoCluster == [masters |-> {}, agents |-> {}, public_agents |-> {}]

AllNodes(c) == c.masters \cup c.agents \cup c.public_agents

NodesOfRole(c, r) ==
    IF r = MASTER THEN c.masters
    ELSE IF r = AGENT THEN c.agents
    ELSE c.public_agents

RoleOfNode(c, n) ==
    IF n \in c.masters THEN MASTER
    ELSE IF n \in c.agents THEN AGENT
    ELSE PUBLIC_AGENT


(***************************************************************************)
(* check_cluster_id_exists (dcos_e2e_cli.common.utils), as the CLI tests   *)
(* describe it: a usage error, exit code 2, naming the cluster id.         *)
(***************************************************************************)
existing_cluster_ids(cs) == {c \in DOMAIN cs : AllNodes(cs[c]) # {}}

check_cluster_id_exists(new_cluster_id, existing) ==
    IF new_cluster_id \in existing
    THEN NoError
    ELSE [type |-> "BadParameter",
          exit_code |-> 2,
          message |-> <<"Cluster \"", new_cluster_id, "\" does not exist">>]

(***************************************************************************)
(* get_dcos_installer_details (dcos_e2e_cli._vendor.dcos_installer_tools). *)
(* It unpacks the installer inside workspace_dir and reads its metadata.   *)
(* `leaves` is what the unpacking leaves behind in the workspace.          *)
(***************************************************************************)
get_dcos_installer_details(inst, ws, leaves) ==
    IF inst = "corrupt"
    THEN [outcome |-> "CalledProcessError", variant |-> NoVariant,
          workspace |-> leaves, stderr |-> "installer stderr"]
    ELSE IF inst = "unreadable"
    THEN [outcome |-> "ValueError", variant |-> NoVariant,
          workspace |-> leaves, stderr |-> ""]
    ELSE [outcome |-> "ok",
          variant |-> IF inst = "enterprise" THEN ENTERPRISE ELSE OSS,
          workspace |-> leaves, stderr |-> ""]

\* What a run of the installer can leave in the workspace.
WorkspaceAfterUnpack(ws) == {ws, "used"}

(***************************************************************************)
(* get_install_variant, variants.py lines 19-70.  The result is the value  *)
(* returned or the exception raised, together with the effects on the      *)
(* workspace directory and the output, in program order.                   *)
(***************************************************************************)
ExplicitVariant(given_variant) ==
    [oss |-> OSS, enterprise |-> ENTERPRISE][given_variant]

\* lines 43-65: the "auto" branch, detection with the installer
DetectVariant_NoRmtree(installer_path, ws, leaves) ==
    LET details == get_dcos_installer_details(installer_path, ws, leaves)
    IN  IF details.outcome = "CalledProcessError"
        THEN [result |-> NoVariant,
              error |-> [type |-> "CalledProcessError",
                         stderr |-> details.stderr],
              workspace |-> details.workspace,
              detect |-> 1,
              log |-> <<"spinner.start", "get_dcos_installer_details",
                        "spinner.stop", "echo doctor_message",
                        "echo", "echo Original error:",
                        "echo exc.stderr", "raise">>]
        ELSE IF details.outcome = "ValueError"
        THEN [result |-> NoVariant,
              error |-> [type |-> "SystemExit", code |-> 1],
              workspace |-> details.workspace,
              detect |-> 1,
              log |-> <<"spinner.start", "get_dcos_installer_details",
                        "echo str(exc)", "sys.exit(1)">>]
        ELSE [result |-> details.variant,
              error |-> NoError,
              workspace |-> details.workspace,
              detect |-> 1,
              log |-> <<"spinner.start", "get_dcos_installer_details",
                        "spinner.succeed", "return">>]

DetectVariant_ReturnsOss(installer_path, ws, leaves) ==
    LET details == get_dcos_installer_details(installer_path, ws, leaves)
    IN  IF details.outcome = "CalledProcessError"
        THEN [result |-> NoVariant,
              error |-> [type |-> "CalledProcessError",
                         stderr |-> details.stderr],
              workspace |-> "removed",
              detect |-> 1,
              log |-> <<"spinner.start", "get_dcos_installer_details",
                        "rmtree", "spinner.stop", "echo doctor_message",
                        "echo", "echo Original error:",
                        "echo exc.stderr", "raise">>]
        ELSE IF details.outcome = "ValueError"
        THEN [result |-> NoVariant,
              error |-> [type |-> "SystemExit", code |-> 1],
              workspace |-> details.workspace,
              detect |-> 1,
              log |-> <<"spinner.start", "get_dcos_installer_details",
                        "echo str(exc)", "sys.exit(1)">>]
        ELSE [result |-> OSS,
              error |-> NoError,
              workspace |-> details.workspace,
              detect |-> 1,
              log |-> <<"spinner.start", "get_dcos_installer_details",
                        "spinner.succeed", "return">>]

\* lines 52-59 without the `raise`
HandleCalledProcessError_Swallows(details) ==
    [result |-> NoVariant,
     error |-> NoError,
     workspace |-> "removed",
     detect |-> 1,
     log |-> <<"spinner.start", "get_dcos_installer_details",
               "rmtree", "spinner.stop", "echo doctor_message",
               "echo", "echo Original error:", "echo exc.stderr">>]

\* lines 52-59: the handler of subprocess.CalledProcessError
HandleCalledProcessError(details) ==
    [result |-> NoVariant,
     error |-> [type |-> "CalledProcessError", stderr |-> details.stderr],
     workspace |-> "removed",
     detect |-> 1,
     log |-> <<"spinner.start", "get_dcos_installer_details",
               "rmtree", "spinner.stop", "echo doctor_message",
               "echo", "echo Original error:", "echo exc.stderr", "raise">>]

\* a handler that lets the ValueError leave the function
HandleValueError_Propagates(details) ==
    [result |-> NoVariant,
     error |-> [type |-> "ValueError"],
     workspace |-> details.workspace,
     detect |-> 1,
     log |-> <<"spinner.start", "get_dcos_installer_details", "raise">>]

\* lines 60-62: the handler of ValueError
HandleValueError(details) ==
    [result |-> NoVariant,
     error |-> [type |-> "SystemExit", code |-> 1],
     workspace |-> details.workspace,
     detect |-> 1,
     log |-> <<"spinner.start", "get_dcos_installer_details",
               "echo str(exc)", "sys.exit(1)">>]

DetectVariant(installer_path, ws, leaves) ==
    LET details == get_dcos_installer_details(installer_path, ws, leaves)
    IN  IF details.outcome = "CalledProcessError"
        THEN HandleCalledProcessError(details)
        ELSE IF details.outcome = "ValueError"
        THEN HandleValueError(details)
        \* lines 64-65
        ELSE [result |-> details.variant,
              error |-> NoError,
              workspace |-> details.workspace,
              detect |-> 1,
              log |-> <<"spinner.start", "get_dcos_installer_details",
                        "spinner.succeed", "return">>]

get_install_variant_AlwaysDetects(given_variant, installer_path, ws, leaves) ==
    DetectVariant(installer_path, ws, leaves)

get_install_variant(given_variant, installer_path, ws, leaves) ==
    IF given_variant = "auto"
    THEN \* line 44: assert installer_path is not None
         IF installer_path = NoInstaller
         THEN [result |-> NoVariant,
               error |-> [type |-> "AssertionError"],
               workspace |-> ws,
               detect |-> 0,
               log |-> <<>>]
         ELSE DetectVariant(installer_path, ws, leaves)
    \* lines 67-70
    ELSE [result |-> ExplicitVariant(given_variant),
          error |-> NoError,
          workspace |-> ws,
          detect |-> 0,
          log |-> <<"return">>]

(***************************************************************************)
(* _validate_dcos_configuration, options.py lines 14-40: the callback of   *)
(* --extra-config.  A file's text is a sequence of one-character strings.  *)
(***************************************************************************)
NoFile == [given |-> FALSE, content |-> <<>>]

File(content) == [given |-> TRUE, content |-> content]

RECURSIVE Join(_)
Join(s) == IF s = <<>> THEN "" ELSE s[1] \o Join(Tail(s))

\* the index of the first c in s, 0 when there is none
IndexOf(s, c) ==
    IF \E i \in 1..Len(s) : s[i] = c
    THEN CHOOSE i \in 1..Len(s) : s[i] = c /\ \A j \in 1..(i - 1) : s[j] # c
    ELSE 0

RECURSIVE Split(_, _)
Split(s, c) ==
    LET i == IndexOf(s, c)
    IN  IF i = 0 THEN <<s>>
        ELSE <<SubSeq(s, 1, i - 1)>> \o Split(SubSeq(s, i + 1, Len(s)), c)

DigitChars == {"0", "1", "2", "3", "4", "5", "6", "7", "8", "9"}

TrueWords == {<<"t", "r", "u", "e">>, <<"y", "e", "s">>, <<"o", "n">>}

FalseWords == {<<"f", "a", "l", "s", "e">>, <<"n", "o">>, <<"o", "f", "f">>}

NullWords == {<<"~">>, <<"n", "u", "l", "l">>}

\* characters no document of these kinds may start with
ReservedIndicators == {"@", "%"}

\* yaml.load of a plain scalar: the implicit resolver picks its type
Scalar(s) ==
    IF s \in NullWords THEN [kind |-> "null", chars |-> s]
    ELSE IF s \in TrueWords \cup FalseWords THEN [kind |-> "bool", chars |-> s]
    ELSE IF \A i \in 1..Len(s) : s[i] \in DigitChars
         THEN [kind |-> "int", chars |-> s]
    ELSE [kind |-> "str", chars |-> s]

YAMLError == [kind |-> "YAMLError"]

\* one line "key: value" of a block mapping
MappingLine(line) ==
    LET i == IndexOf(line, ":")
    IN  IF i > 1 /\ i + 1 < Len(line) /\ line[i + 1] = " "
        THEN [kind |-> "pair",
              key |-> Join(SubSeq(line, 1, i - 1)),
              value |-> Scalar(SubSeq(line, i + 2, Len(line)))]
        ELSE YAMLError

\* yaml.load(content), options.py line 30, for the documents of one scalar,
\* one flow sequence of plain scalars, or one block mapping of plain scalars
yaml_load(content) ==
    IF content = <<>> THEN [kind |-> "null", chars |-> <<>>]
    ELSE IF content[1] \in ReservedIndicators THEN YAMLError
    ELSE IF content[1] = "["
         THEN IF content[Len(content)] # "]" THEN YAMLError
              ELSE LET inner == SubSeq(content, 2, Len(content) - 1)
                       parts == IF inner = <<>> THEN <<>> ELSE Split(inner, ",")
                   IN  IF \E i \in 1..Len(parts) : parts[i] = <<>>
                       THEN YAMLError
                       ELSE [kind |-> "list",
                             items |-> [i \in 1..Len(parts) |->
                                            Scalar(parts[i])]]
    ELSE IF IndexOf(content, ":") # 0
         THEN LET lines == Split(content, "\n")
                  pairs == [i \in 1..Len(lines) |-> MappingLine(lines[i])]
              IN  IF \E i \in 1..Len(pairs) : pairs[i].kind = "YAMLError"
                  THEN YAMLError
                  ELSE [kind |-> "map", pairs |-> pairs]
    ELSE Scalar(content)

\* the truth value of a loaded document, for `yaml.load(content) or {}`
Truthy(v) ==
    CASE v.kind = "null" -> FALSE
      [] v.kind = "bool" -> v.chars \in TrueWords
      [] v.kind = "int" -> \E i \in 1..Len(v.chars) : v.chars[i] # "0"
      [] v.kind = "str" -> v.chars # <<>>
      [] v.kind = "list" -> v.items # <<>>
      [] v.kind = "map" -> v.pairs # <<>>

\* a scalar as a value of a configuration mapping
Value(v) == [kind |-> v.kind, val |-> Join(v.chars)]

StrValue(str) == [kind |-> "str", val |-> str]

EmptyDict == <<>>

\* a dict built from (key, value) pairs in order: the last pair of a key wins
DictOfPairs(keys, values) ==
    [k \in {keys[i] : i \in 1..Len(keys)} |->
        LET last == CHOOSE i \in 1..Len(keys) :
                        /\ keys[i] = k
                        /\ \A j \in (i + 1)..Len(keys) : keys[j] # k
        IN  values[last]]

\* dict(v) for a truthy v, options.py line 30: a mapping is copied; an
\* iterable is read as a sequence of pairs, each element an iterable of
\* length two; anything else is no iterable at all
dict(v) ==
    CASE v.kind = "map" ->
             [raised |-> "none",
              value |-> DictOfPairs([i \in 1..Len(v.pairs) |-> v.pairs[i].key],
                                    [i \in 1..Len(v.pairs) |->
                                         Value(v.pairs[i].value)])]
      [] v.kind = "list" ->
             LET bad == {i \in 1..Len(v.items) :
                            \/ v.items[i].kind # "str"
                            \/ Len(v.items[i].chars) # 2}
                 first == CHOOSE i \in bad : \A j \in bad : i <= j
             IN  IF bad = {}
                 THEN [raised |-> "none",
                       value |-> DictOfPairs(
                           [i \in 1..Len(v.items) |-> v.items[i].chars[1]],
                           [i \in 1..Len(v.items) |->
                                StrValue(v.items[i].chars[2])])]
                 ELSE IF v.items[first].kind = "str"
                      THEN [raised |-> "ValueError", value |-> EmptyDict]
                      ELSE [raised |-> "TypeError", value |-> EmptyDict]
      [] v.kind = "str" -> [raised |-> "ValueError", value |-> EmptyDict]
      [] v.kind \in {"int", "bool"} ->
             [raised |-> "TypeError", value |-> EmptyDict]

BadParameter(message) ==
    [type |-> "BadParameter", exit_code |-> 2, message |-> message]

\* a _validate_dcos_configuration that lets unparsable content through
validate_dcos_configuration_AcceptsAll(value) ==
    IF ~value.given THEN [error |-> NoError, result |-> EmptyDict]
    ELSE LET content == value.content
             loaded == yaml_load(content)
         IN  IF loaded.kind = "YAMLError" \/ ~Truthy(loaded)
             THEN [error |-> NoError, result |-> EmptyDict]
             ELSE LET d == dict(loaded)
                  IN  IF d.raised = "ValueError"
                      THEN [error |-> BadParameter(
                                <<"\"", content,
                                  "\" is not a valid DC/OS configuration">>),
                            result |-> EmptyDict]
                      ELSE IF d.raised = "TypeError"
                      THEN [error |-> [type |-> "TypeError", exit_code |-> 1,
                                       message |-> <<>>],
                            result |-> EmptyDict]
                      ELSE [error |-> NoError, result |-> d.value]

validate_dcos_configuration(value) ==
    \* lines 26-27
    IF ~value.given THEN [error |-> NoError, result |-> EmptyDict]
    ELSE LET content == value.content      \* line 28
             loaded == yaml_load(content)
         IN  \* lines 36-37 and 39
             IF loaded.kind = "YAMLError"
             THEN [error |-> BadParameter(
                       <<"\"", content, "\" is not valid YAML">>),
                   result |-> EmptyDict]
             \* line 30, `... or {}`
             ELSE IF ~Truthy(loaded)
             THEN [error |-> NoError, result |-> EmptyDict]
             ELSE LET d == dict(loaded)
                  IN  \* lines 32-35 and 39
                      IF d.raised = "ValueError"
                      THEN [error |-> BadParameter(
                                <<"\"", content,
                                  "\" is not a valid DC/OS configuration">>),
                            result |-> EmptyDict]
                      \* no except clause for it: the exception leaves the
                      \* callback as it is
                      ELSE IF d.raised = "TypeError"
                      THEN [error |-> [type |-> "TypeError", exit_code |-> 1,
                                       message |-> <<>>],
                            result |-> EmptyDict]
                      ELSE [error |-> NoError, result |-> d.value]

\* the texts of the --extra-config files
SecurityDisabledMap ==
    <<"s", "e", "c", "u", "r", "i", "t", "y", ":", " ", "d", "i", "s", "a",
      "b", "l", "e", "d">>

CredentialsMap ==
    <<"c", "l", "u", "s", "t", "e", "r", "_", "d", "o", "c", "k", "e", "r",
      "_", "c", "r", "e", "d", "e", "n", "t", "i", "a", "l", "s", "_", "e",
      "n", "a", "b", "l", "e", "d", ":", " ", "t", "r", "u", "e">>

ClusterNameMap ==
    <<"c", "l", "u", "s", "t", "e", "r", "_", "n", "a", "m", "e", ":", " ",
      "m", "i", "n", "e">>

TwoKeyMap ==
    <<"s", "e", "c", "u", "r", "i", "t", "y", ":", " ", "p", "e", "r", "m",
      "i", "s", "s", "i", "v", "e", "\n", "r", "e", "s", "o", "l", "v",
      "e", "r", "s", ":", " ", "0">>

LicenseMap ==
    <<"l", "i", "c", "e", "n", "s", "e", "_", "k", "e", "y", "_", "c", "o",
      "n", "t", "e", "n", "t", "s", ":", " ", "m", "i", "n", "e">>

Contents ==
    {<<>>,
     <<"@">>,
     <<"[", "a", "b">>,
     <<"e", "x", "a", "m", "p", "l", "e">>,
     <<"5">>,
     <<"0">>,
     <<"t", "r", "u", "e">>,
     <<"[", "]">>,
     <<"[", "a", "b", ",", "c", "d", "]">>,
     <<"[", "a", "b", "c", "]">>,
     <<"[", "5", "]">>,
     SecurityDisabledMap,
     CredentialsMap,
     ClusterNameMap,
     TwoKeyMap,
     LicenseMap}

ExtraConfigFiles == {NoFile} \cup {File(c) : c \in Contents}

SecurityModes == {"disabled", "permissive", "strict"}

\* the text of the file --license-key names
read_text(path) == "license"

LicenseKeys == {"None", "license.txt"}

(***************************************************************************)
(* get_config (dcos_e2e_cli.common.create): the manifest handed to every   *)
(* node upgrade, built in increasing precedence from the generated values, *)
(* extra_config, and the security mode and license key options.            *)
(***************************************************************************)
Merge_BaseWins(base, over) ==
    [k \in DOMAIN base \cup DOMAIN over |->
        IF k \in DOMAIN base THEN base[k] ELSE over[k]]

Merge(base, over) ==
    [k \in DOMAIN base \cup DOMAIN over |->
        IF k \in DOMAIN over THEN over[k] ELSE base[k]]

base_config(c, v) ==
    [master_list |-> c.masters,
     agent_list |-> c.agents,
     public_agent_list |-> c.public_agents,
     variant |-> v,
     cluster_name |-> StrValue("DCOS")]

with_security_KeepsExisting(config, mode) ==
    IF mode # "None" /\ "security" \notin DOMAIN config
    THEN Merge(config, [security |-> StrValue(mode)])
    ELSE config

with_security(config, mode) ==
    IF mode # "None"
    THEN Merge(config, [security |-> StrValue(mode)])
    ELSE config

with_license_AnyVariant(config, v, key) ==
    IF key # "None"
    THEN Merge(config, [license_key_contents |-> StrValue(read_text(key))])
    ELSE config

with_license(config, v, key) ==
    IF v = ENTERPRISE /\ key # "None"
    THEN Merge(config, [license_key_contents |-> StrValue(read_text(key))])
    ELSE config

get_config(c, extra, v, mode, key) ==
    with_license(with_security(Merge(base_config(c, v), extra), mode), v, key)

NoConfig == [variant |-> NoVariant]

(***************************************************************************)
(* The (nodes, role) tuple the outer for loop of upgrade() runs over,      *)
(* upgrade.py lines 88-92.                                                 *)
(***************************************************************************)
UpgradePlan_AgentsFirst(c) ==
    <<[nodes |-> c.agents, role |-> AGENT],
      [nodes |-> c.masters, role |-> MASTER],
      [nodes |-> c.public_agents, role |-> PUBLIC_AGENT]>>

\* a tuple whose first pair also holds the agents
UpgradePlan_AgentsTwice(c) ==
    <<[nodes |-> c.masters \cup c.agents, role |-> MASTER],
      [nodes |-> c.agents, role |-> AGENT],
      [nodes |-> c.public_agents, role |-> PUBLIC_AGENT]>>

UpgradePlan(c) ==
    <<[nodes |-> c.masters, role |-> MASTER],
      [nodes |-> c.agents, role |-> AGENT],
      [nodes |-> c.public_agents, role |-> PUBLIC_AGENT]>>

\* upgrade.py line 102
HttpChecks_Always(t) == TRUE

HttpChecks(t) == (t = SSH)

(***************************************************************************)
(* The readiness wait of run_post_install_steps                            *)
(* (dcos_e2e_cli.common.install), after section 4.5 of the specification:  *)
(* node-local checks, then the cluster-wide HTTP checks when requested,    *)
(* polled with a bounded number of retries.                                *)
(***************************************************************************)
RequestedChecks(http) ==
    IF http THEN <<"node-local", "cluster-http">> ELSE <<"node-local">>

NoWait == [state |-> "NOT-WAITING", budget |-> 0, fails |-> 0, attempts |-> 0,
           checks |-> <<>>, passed |-> 0, last_failures |-> <<>>]

\* One poll of a health check that fails `fails` times and then succeeds.
PollPasses_OffByOne(w) == w.attempts + 1 >= w.fails

PollPasses(w) == w.attempts + 1 > w.fails

Poll(w) ==
    IF PollPasses(w)
    THEN [w EXCEPT !.attempts = @ + 1, !.passed = @ + 1, !.state = "READY"]
    ELSE [w EXCEPT !.attempts = @ + 1,
                   !.last_failures = <<[attempt |-> w.attempts + 1,
                                        check |-> w.checks[1]]>>]

BudgetLeft(w) == w.attempts < w.budget


(***************************************************************************)
(* Strings that the code compares or converts are sequences of characters. *)
(***************************************************************************)
UpperOf ==
    [a |-> "A", b |-> "B", c |-> "C", d |-> "D", e |-> "E", f |-> "F",
     g |-> "G", h |-> "H", i |-> "I", j |-> "J", k |-> "K", l |-> "L",
     m |-> "M", n |-> "N", o |-> "O", p |-> "P", q |-> "Q", r |-> "R",
     s |-> "S", t |-> "T", u |-> "U", v |-> "V", w |-> "W", x |-> "X",
     y |-> "Y", z |-> "Z"]

\* str.upper() on one character and on a string
UpperChar(ch) == IF ch \in DOMAIN UpperOf THEN UpperOf[ch] ELSE ch

Upper(str) == [i \in 1..Len(str) |-> UpperChar(str[i])]

\* str(index) for a one-digit index
Digits == <<"0", "1", "2", "3", "4", "5", "6", "7", "8", "9">>

Str(i) == <<Digits[i + 1]>>

(***************************************************************************)
(* ClusterVMs and VMInspectView (dcos_vagrant/commands/_common.py).  A VM  *)
(* is known by its number; it has a VM name and one IP address, which      *)
(* to_node gives the Node as its public and as its private address.        *)
(***************************************************************************)
VmName(v) == <<"v", "m", "-">> \o Str(v)

IpAddress(v) == <<"1", "0", ".", "0", ".", "0", ".">> \o Str(v)

to_node(v) ==
    [public_ip_address |-> IpAddress(v), private_ip_address |-> IpAddress(v)]

RoleName(r) ==
    IF r = MASTER THEN <<"m", "a", "s", "t", "e", "r">>
    ELSE IF r = AGENT THEN <<"a", "g", "e", "n", "t">>
    ELSE <<"p", "u", "b", "l", "i", "c", "_", "a", "g", "e", "n", "t">>

\* position of the VM among the VMs of its role
IndexInRole(c, v) ==
    Cardinality({w \in NodesOfRole(c, RoleOfNode(c, v)) : w < v})

\* VMInspectView(vm_name, cluster_vms).to_dict()
to_dict(c, v) ==
    [e2e_reference |-> RoleName(RoleOfNode(c, v)) \o <<"_">>
                           \o Str(IndexInRole(c, v)),
     vm_name |-> VmName(v),
     ip_address |-> IpAddress(v)]

(***************************************************************************)
(* get_node, _nodes.py lines 36-74.                                        *)
(***************************************************************************)
\* lines 54-58
vm_names(c) == c.masters \cup c.agents \cup c.public_agents

\* lines 61-70: the tuple `accepted` of one VM
Accepted_NoIp(c, v) ==
    LET inspect_data == to_dict(c, v)
        reference == inspect_data.e2e_reference
    IN  {reference, Upper(reference), VmName(v)}

Accepted_NoUpper(c, v) ==
    LET inspect_data == to_dict(c, v)
        reference == inspect_data.e2e_reference
        ip_address == inspect_data.ip_address
    IN  {reference, ip_address, VmName(v)}

\* a tuple without the reference as the inspect view gives it
Accepted_NoReference(c, v) ==
    LET inspect_data == to_dict(c, v)
        reference == inspect_data.e2e_reference
        ip_address == inspect_data.ip_address
    IN  {Upper(reference), ip_address, VmName(v)}

\* a tuple that also holds the IP address of the first VM
Accepted_PlusFirstIp(c, v) ==
    LET inspect_data == to_dict(c, v)
        reference == inspect_data.e2e_reference
        ip_address == inspect_data.ip_address
    IN  {reference, Upper(reference), ip_address, VmName(v), IpAddress(1)}

Accepted(c, v) ==
    LET inspect_data == to_dict(c, v)
        reference == inspect_data.e2e_reference
        ip_address == inspect_data.ip_address
    IN  {reference, Upper(reference), ip_address, VmName(v)}

\* The values get_node can return: the for loop of line 60 visits the set
\* vm_names in no fixed order and returns at the first VM that accepts.
\* Optional[Node] is a set of at most one Node.
get_node(c, node_reference) ==
    LET accepting == {v \in vm_names(c) : node_reference \in Accepted(c, v)}
    IN  IF accepting = {}
        THEN {{}}
        ELSE {{to_node(v)} : v \in accepting}

(***************************************************************************)
(* get_nodes, _nodes.py lines 77-120.  `found` gives, for each reference,  *)
(* what get_node returned for it.                                          *)
(***************************************************************************)
\* A loop that skips a reference without a node
RECURSIVE get_nodes_from_Skip(_, _, _, _, _)
get_nodes_from_Skip(cid, node_references, found, i, nodes) ==
    IF i > Len(node_references)
    THEN [raised |-> FALSE, nodes |-> nodes, error |-> NoError]
    ELSE get_nodes_from_Skip(cid, node_references, found, i + 1,
                             nodes \cup found[i])

\* A loop that returns what it has collected at a reference without a node
RECURSIVE get_nodes_from_Partial(_, _, _, _, _)
get_nodes_from_Partial(cid, node_references, found, i, nodes) ==
    IF i > Len(node_references)
    THEN [raised |-> FALSE, nodes |-> nodes, error |-> NoError]
    ELSE IF found[i] = {}
    THEN [raised |-> FALSE, nodes |-> nodes, error |-> NoError]
    ELSE get_nodes_from_Partial(cid, node_references, found, i + 1,
                                nodes \cup found[i])

RECURSIVE get_nodes_from(_, _, _, _, _)
get_nodes_from(cid, node_references, found, i, nodes) ==
    IF i > Len(node_references)
    THEN [raised |-> FALSE, nodes |-> nodes, error |-> NoError]
    ELSE IF found[i] = {}
    THEN [raised |-> TRUE,
          nodes |-> {},
          error |-> [type |-> "BadParameter",
                     message |->
                         [template |-> "No such node in cluster {cluster_id} with IP address, VM name or node reference {node_reference}. Node references can be seen with {inspect_command}.",
                          cluster_id |-> cid,
                          node_reference |-> node_references[i],
                          inspect_command |-> "inspect"]]]
    ELSE get_nodes_from(cid, node_references, found, i + 1,
                        nodes \cup found[i])

get_nodes(cid, node_references, found) ==
    get_nodes_from(cid, node_references, found, 1, {})

(***************************************************************************)
(* upgrade(), upgrade.py lines 46-112, one action per step.                *)
(***************************************************************************)
UpgradeInit ==
    /\ cluster_id \in ClusterIds
    /\ transport \in Transport
    /\ variant \in VariantChoices
    /\ wait_for_dcos \in BOOLEAN
    /\ installer \in InstallerKinds
    /\ \E t \in Topologies \cup {NoCluster} :
           containers = [c \in ClusterIds |->
                            IF c = "default" THEN t ELSE Topology(1, 1, 0)]
    /\ workspace = "empty"
    /\ pc = "check_cluster_id_exists"
    /\ cluster = NoCluster
    /\ dcos_variant = NoVariant
    /\ detect_calls = 0
    /\ variant_log = <<>>
    /\ dcos_config = NoConfig
    /\ role_idx = 0
    /\ pending = {}
    /\ inflight = NoNode
    /\ calls = <<>>
    /\ http_checks = FALSE
    /\ wait = NoWait
    /\ error = NoError
    /\ steps = <<>>

\* the keyword arguments of the calls upgrade() makes: lines 65-68, 69-72,
\* 75-80, 81-87, 94-100 and 104-112
Keywords ==
    [check_cluster_id_exists |-> {"new_cluster_id", "existing_cluster_ids"},
     ClusterContainers |-> {"cluster_id", "transport"},
     get_install_variant |-> {"given_variant", "installer_path",
                              "workspace_dir", "doctor_message"},
     get_config |-> {"cluster_representation", "extra_config", "dcos_variant",
                     "security_mode", "license_key"},
     upgrade_dcos_from_path |-> {"dcos_installer", "dcos_config",
                                 "ip_detect_path", "role", "output"},
     run_post_install_steps |-> {"cluster", "cluster_id", "dcos_config",
                                 "doctor_command_name", "http_checks",
                                 "wait_command_name", "wait_for_dcos"}]

Step(call) == [call |-> call, kwargs |-> Keywords[call]]

\* cluster_backend.ip_detect_path of the Docker backend, lines 73 and 97
ip_detect_path == "Docker().ip_detect_path"

\* the arguments of node.upgrade_dcos_from_path, lines 94-100, without the
\* configuration the call is given
upgrade_dcos_from_path_args_NoConfig(dcos_installer, config, role) ==
    [dcos_installer |-> dcos_installer,
     dcos_config |-> NoConfig,
     ip_detect_path |-> ip_detect_path,
     role |-> role,
     output |-> "LOG_AND_CAPTURE"]

upgrade_dcos_from_path_args(dcos_installer, config, role) ==
    [dcos_installer |-> dcos_installer,
     dcos_config |-> config,
     ip_detect_path |-> ip_detect_path,
     role |-> role,
     output |-> "LOG_AND_CAPTURE"]

\* one entry of the log of node upgrades
UpgradeCall(ev, node) ==
    LET role == UpgradePlan(cluster)[role_idx].role
    IN  [ev |-> ev, node |-> node, role |-> role, dcos_config |-> dcos_config,
         args |-> upgrade_dcos_from_path_args(installer, dcos_config, role)]

\* the options as click hands them to upgrade() when none of them is given
OptionsDefault ==
    /\ extra_config_file = NoFile
    /\ extra_config = validate_dcos_configuration(NoFile).result
    /\ security_mode = "None"
    /\ license_key = "None"

\* the callback of --extra-config, run by click before the body of upgrade()
ValidateExtraConfig ==
    /\ pc = "validate_dcos_configuration"
    /\ LET r == validate_dcos_configuration(extra_config_file)
       IN  /\ extra_config' = r.result
           /\ error' = r.error
           /\ pc' = IF r.error.type = "none" THEN "check_cluster_id_exists"
                    ELSE "error"
    /\ UNCHANGED <<nodesVars, destroyVars, countVars>>
    /\ UNCHANGED <<extra_config_file, security_mode, license_key>>
    /\ UNCHANGED steps
    /\ UNCHANGED <<cluster_id, transport, variant, wait_for_dcos, installer,
                   containers, workspace, cluster, dcos_variant, detect_calls,
                   variant_log, dcos_config, role_idx, pending, inflight,
                   calls, http_checks, wait>>

\* an upgrade() that goes on without the check of lines 65-68
CheckClusterIdExists_Skipped ==
    /\ pc = "check_cluster_id_exists"
    /\ pc' = "attach"
    /\ UNCHANGED <<nodesVars, optionVars, destroyVars, countVars>>
    /\ UNCHANGED steps
    /\ UNCHANGED <<cluster_id, transport, variant, wait_for_dcos, installer,
                   containers, workspace, cluster, dcos_variant, detect_calls,
                   variant_log, dcos_config, role_idx, pending, inflight,
                   calls, http_checks, wait, error>>

\* lines 65-68
CheckClusterIdExists ==
    /\ pc = "check_cluster_id_exists"
    /\ LET e == check_cluster_id_exists(cluster_id,
                                        existing_cluster_ids(containers))
       IN  /\ error' = e
           /\ pc' = IF e.type = "none" THEN "attach" ELSE "error"
    /\ UNCHANGED <<nodesVars, optionVars, destroyVars, countVars>>
    /\ steps' = Append(steps, Step("check_cluster_id_exists"))
    /\ UNCHANGED <<cluster_id, transport, variant, wait_for_dcos, installer,
                   containers, workspace, cluster, dcos_variant, detect_calls,
                   variant_log, dcos_config, role_idx, pending, inflight,
                   calls, http_checks, wait>>

\* an attach that takes the containers out of the backend's map
Attach_Detaches ==
    /\ pc = "attach"
    /\ cluster' = containers[cluster_id]
    /\ containers' = [containers EXCEPT ![cluster_id] = NoCluster]
    /\ steps' = Append(steps, Step("ClusterContainers"))
    /\ pc' = "get_install_variant"
    /\ UNCHANGED <<nodesVars, optionVars, destroyVars, countVars>>
    /\ UNCHANGED <<cluster_id, transport, variant, wait_for_dcos, installer,
                   workspace, dcos_variant, detect_calls, variant_log,
                   dcos_config, role_idx, pending, inflight, calls,
                   http_checks, wait, error>>

\* lines 69-74
Attach ==
    /\ pc = "attach"
    /\ cluster' = containers[cluster_id]
    /\ pc' = "get_install_variant"
    /\ UNCHANGED <<nodesVars, optionVars, destroyVars, countVars>>
    /\ steps' = Append(steps, Step("ClusterContainers"))
    /\ UNCHANGED <<cluster_id, transport, variant, wait_for_dcos, installer,
                   containers, workspace, dcos_variant, detect_calls,
                   variant_log, dcos_config, role_idx, pending, inflight,
                   calls, http_checks, wait, error>>

\* an upgrade() that hands no installer path to get_install_variant
GetInstallVariant_NoInstaller ==
    /\ pc = "get_install_variant"
    /\ \E leaves \in WorkspaceAfterUnpack(workspace) :
         LET r == get_install_variant(variant, NoInstaller, workspace,
                                      leaves)
         IN  /\ dcos_variant' = r.result
             /\ error' = r.error
             /\ workspace' = r.workspace
             /\ detect_calls' = detect_calls + r.detect
             /\ variant_log' = r.log
             /\ pc' = IF r.error.type = "none" THEN "get_config" ELSE "error"
    /\ UNCHANGED <<nodesVars, optionVars, destroyVars, countVars>>
    /\ steps' = Append(steps, Step("get_install_variant"))
    /\ UNCHANGED <<cluster_id, transport, variant, wait_for_dcos, installer,
                   containers, cluster, dcos_config, role_idx, pending,
                   inflight, calls, http_checks, wait>>

\* lines 75-80
GetInstallVariant ==
    /\ pc = "get_install_variant"
    /\ \E leaves \in WorkspaceAfterUnpack(workspace) :
         LET r == get_install_variant(variant, installer, workspace, leaves)
         IN  /\ dcos_variant' = r.result
             /\ error' = r.error
             /\ workspace' = r.workspace
             /\ detect_calls' = detect_calls + r.detect
             /\ variant_log' = r.log
             /\ pc' = IF r.error.type = "none" THEN "get_config" ELSE "error"
    /\ UNCHANGED <<nodesVars, optionVars, destroyVars, countVars>>
    /\ steps' = Append(steps, Step("get_install_variant"))
    /\ UNCHANGED <<cluster_id, transport, variant, wait_for_dcos, installer,
                   containers, cluster, dcos_config, role_idx, pending,
                   inflight, calls, http_checks, wait>>

\* lines 81-87, and the entry into the outer for loop of line 88
GetConfig ==
    /\ pc = "get_config"
    /\ dcos_config' = get_config(cluster, extra_config, dcos_variant,
                                 security_mode, license_key)
    /\ role_idx' = 1
    /\ pending' = UpgradePlan(cluster)[1].nodes
    /\ pc' = "upgrade_nodes"
    /\ UNCHANGED <<nodesVars, optionVars, destroyVars, countVars>>
    /\ steps' = Append(steps, Step("get_config"))
    /\ UNCHANGED <<cluster_id, transport, variant, wait_for_dcos, installer,
                   containers, workspace, cluster, dcos_variant, detect_calls,
                   variant_log, inflight, calls, http_checks, wait, error>>

\* lines 93-100: the inner for loop picks the next node of the role set and
\* calls node.upgrade_dcos_from_path
IssueUpgrade(n) ==
    /\ pc = "upgrade_nodes"
    /\ inflight = NoNode
    /\ n \in pending
    /\ inflight' = n
    /\ pending' = pending \ {n}
    /\ calls' = Append(calls, UpgradeCall("issue", n))
    /\ UNCHANGED <<nodesVars, optionVars, destroyVars, countVars>>
    /\ steps' = Append(steps, Step("upgrade_dcos_from_path"))
    /\ UNCHANGED <<cluster_id, transport, variant, wait_for_dcos, installer,
                   containers, workspace, pc, cluster, dcos_variant,
                   detect_calls, variant_log, dcos_config, role_idx,
                   http_checks, wait, error>>

\* node.upgrade_dcos_from_path returns
ReturnUpgrade ==
    /\ pc = "upgrade_nodes"
    /\ inflight # NoNode
    /\ calls' = Append(calls, UpgradeCall("return", inflight))
    /\ inflight' = NoNode
    /\ UNCHANGED <<nodesVars, optionVars, destroyVars, countVars>>
    /\ UNCHANGED steps
    /\ UNCHANGED <<cluster_id, transport, variant, wait_for_dcos, installer,
                   containers, workspace, pc, cluster, dcos_variant,
                   detect_calls, variant_log, dcos_config, role_idx, pending,
                   http_checks, wait, error>>

\* A loop that collects the failure and goes on with the next node
RaiseUpgrade_Collect ==
    /\ pc = "upgrade_nodes"
    /\ inflight # NoNode
    /\ calls' = Append(calls, UpgradeCall("raise", inflight))
    /\ inflight' = NoNode
    /\ UNCHANGED <<nodesVars, optionVars, destroyVars, countVars>>
    /\ UNCHANGED steps
    /\ UNCHANGED <<cluster_id, transport, variant, wait_for_dcos, installer,
                   containers, workspace, pc, cluster, dcos_variant,
                   detect_calls, variant_log, dcos_config, role_idx, pending,
                   http_checks, wait, error>>

\* node.upgrade_dcos_from_path raises: upgrade() has no handler around the
\* call of lines 94-100, the exception leaves upgrade()
RaiseUpgrade ==
    /\ pc = "upgrade_nodes"
    /\ inflight # NoNode
    /\ calls' = Append(calls, UpgradeCall("raise", inflight))
    /\ error' = [type |-> "CalledProcessError", nodes |-> {inflight}]
    /\ inflight' = NoNode
    /\ pc' = "error"
    /\ UNCHANGED <<nodesVars, optionVars, destroyVars, countVars>>
    /\ UNCHANGED steps
    /\ UNCHANGED <<cluster_id, transport, variant, wait_for_dcos, installer,
                   containers, workspace, cluster, dcos_variant, detect_calls,
                   variant_log, dcos_config, role_idx, pending, http_checks,
                   wait>>

\* line 88: the inner loop of one role is exhausted, the outer loop moves to
\* the next (nodes, role) pair
NextRole ==
    /\ pc = "upgrade_nodes"
    /\ inflight = NoNode
    /\ pending = {}
    /\ role_idx < Len(UpgradePlan(cluster))
    /\ role_idx' = role_idx + 1
    /\ pending' = UpgradePlan(cluster)[role_idx + 1].nodes
    /\ UNCHANGED <<nodesVars, optionVars, destroyVars, countVars>>
    /\ UNCHANGED steps
    /\ UNCHANGED <<cluster_id, transport, variant, wait_for_dcos, installer,
                   containers, workspace, pc, cluster, dcos_variant,
                   detect_calls, variant_log, dcos_config, inflight, calls,
                   http_checks, wait, error>>

\* an upgrade() that leaves the loops before they are exhausted
ComputeHttpChecks_Early ==
    /\ pc = "upgrade_nodes"
    /\ inflight = NoNode
    /\ http_checks' = HttpChecks(transport)
    /\ pc' = "run_post_install_steps"
    /\ UNCHANGED <<nodesVars, optionVars, destroyVars, countVars>>
    /\ UNCHANGED steps
    /\ UNCHANGED <<cluster_id, transport, variant, wait_for_dcos, installer,
                   containers, workspace, cluster, dcos_variant, detect_calls,
                   variant_log, dcos_config, role_idx, pending, inflight,
                   calls, wait, error>>

\* lines 102-103: both loops are exhausted
ComputeHttpChecks ==
    /\ pc = "upgrade_nodes"
    /\ inflight = NoNode
    /\ pending = {}
    /\ role_idx = Len(UpgradePlan(cluster))
    /\ http_checks' = HttpChecks(transport)
    /\ pc' = "run_post_install_steps"
    /\ UNCHANGED <<nodesVars, optionVars, destroyVars, countVars>>
    /\ UNCHANGED steps
    /\ UNCHANGED <<cluster_id, transport, variant, wait_for_dcos, installer,
                   containers, workspace, cluster, dcos_variant, detect_calls,
                   variant_log, dcos_config, role_idx, pending, inflight,
                   calls, wait, error>>

\* lines 104-112: run_post_install_steps starts the readiness wait when
\* wait_for_dcos is set.  The retry budget and the number of times the
\* health check fails before it passes are inputs of the wait.
RunPostInstallSteps ==
    /\ pc = "run_post_install_steps"
    /\ IF wait_for_dcos
       THEN /\ \E b \in 1..MaxBudget, f \in 0..MaxFails :
                  wait' = [NoWait EXCEPT !.state = "WAITING-READY",
                                         !.budget = b,
                                         !.fails = f,
                                         !.checks = RequestedChecks(http_checks)]
            /\ pc' = "waiting"
       ELSE /\ wait' = wait
            /\ pc' = "done"
    /\ UNCHANGED <<nodesVars, optionVars, destroyVars, countVars>>
    /\ steps' = Append(steps, Step("run_post_install_steps"))
    /\ UNCHANGED <<cluster_id, transport, variant, wait_for_dcos, installer,
                   containers, workspace, cluster, dcos_variant, detect_calls,
                   variant_log, dcos_config, role_idx, pending, inflight,
                   calls, http_checks, error>>

\* one poll of the readiness wait
WaitPoll ==
    /\ pc = "waiting"
    /\ BudgetLeft(wait)
    /\ wait' = Poll(wait)
    /\ pc' = IF wait'.state = "READY" THEN "done" ELSE "waiting"
    /\ UNCHANGED <<nodesVars, optionVars, destroyVars, countVars>>
    /\ UNCHANGED steps
    /\ UNCHANGED <<cluster_id, transport, variant, wait_for_dcos, installer,
                   containers, workspace, cluster, dcos_variant, detect_calls,
                   variant_log, dcos_config, role_idx, pending, inflight,
                   calls, http_checks, error>>

\* the retry budget is used up without a passing check
WaitTimeout ==
    /\ pc = "waiting"
    /\ ~BudgetLeft(wait)
    /\ error' = [type |-> "NotReadyError",
                 last_failures |-> wait.last_failures]
    /\ wait' = [wait EXCEPT !.state = "NOT-READY"]
    /\ pc' = "error"
    /\ UNCHANGED <<nodesVars, optionVars, destroyVars, countVars>>
    /\ UNCHANGED steps
    /\ UNCHANGED <<cluster_id, transport, variant, wait_for_dcos, installer,
                   containers, workspace, cluster, dcos_variant, detect_calls,
                   variant_log, dcos_config, role_idx, pending, inflight,
                   calls, http_checks>>

(***************************************************************************)
(* Node resolution as operations on a Vagrant cluster.                     *)
(***************************************************************************)
MaxRefs == 2

NoResolution == [op |-> "none", node_references |-> <<>>, node |-> {},
                 raised |-> FALSE, nodes |-> {}, error |-> NoError]

\* Spellings with the first letter in upper case, such as "Master_0"
Capitalize(str) == [i \in 1..Len(str) |-> IF i = 1 THEN UpperChar(str[i])
                                           ELSE str[i]]

\* The reference strings a user can give: every reference of a VM of the
\* largest cluster, other spellings of them, and strings of no node.
References ==
    LET big == Topology(MaxMasters, MaxAgents, MaxPublicAgents)
    IN  UNION {{to_dict(big, v).e2e_reference,
                Upper(to_dict(big, v).e2e_reference),
                Capitalize(to_dict(big, v).e2e_reference),
                IpAddress(v),
                VmName(v)} : v \in AllNodes(big)}
        \cup {Upper(VmName(1)),
              <<"m", "a", "s", "t", "e", "r", "_", "9">>}

\* The references given in lists: those of the first and of the last VM of
\* the largest cluster, and two strings of no node.
ListReferences ==
    LET big == Topology(MaxMasters, MaxAgents, MaxPublicAgents)
        last == MaxMasters + MaxAgents + MaxPublicAgents
    IN  UNION {{to_dict(big, v).e2e_reference,
                Upper(to_dict(big, v).e2e_reference),
                IpAddress(v),
                VmName(v)} : v \in {1, last}}
        \cup {Capitalize(to_dict(big, 1).e2e_reference),
              <<"m", "a", "s", "t", "e", "r", "_", "9">>}

ReferenceLists ==
    UNION {[1..k -> ListReferences] : k \in 0..MaxRefs}

NodesInit ==
    /\ vm_cluster_id \in ClusterIds
    /\ cluster_vms \in Topologies
    /\ resolution = NoResolution

\* One command invocation resolves its references once.
GetNode ==
    /\ resolution.op = "none"
    /\ \E node_reference \in References :
         \E node \in get_node(cluster_vms, node_reference) :
           resolution' = [NoResolution EXCEPT
                             !.op = "get_node",
                             !.node_references = <<node_reference>>,
                             !.node = node]
    /\ UNCHANGED <<vm_cluster_id, cluster_vms>>
    /\ UNCHANGED <<upgradeVars, optionVars, destroyVars, countVars>>

\* What the get_node calls of one get_nodes run can return, reference by
\* reference
RECURSIVE FoundFrom(_, _, _)
FoundFrom(c, node_references, i) ==
    IF i > Len(node_references)
    THEN {<<>>}
    ELSE {<<node>> \o rest :
              node \in get_node(c, node_references[i]),
              rest \in FoundFrom(c, node_references, i + 1)}

GetNodes ==
    /\ resolution.op = "none"
    /\ \E node_references \in ReferenceLists :
         \E found \in FoundFrom(cluster_vms, node_references, 1) :
           LET r == get_nodes(vm_cluster_id, node_references, found)
           IN  resolution' = [NoResolution EXCEPT
                                 !.op = "get_nodes",
                                 !.node_references = node_references,
                                 !.raised = r.raised,
                                 !.nodes = r.nodes,
                                 !.error = r.error]
    /\ UNCHANGED <<vm_cluster_id, cluster_vms>>
    /\ UNCHANGED <<upgradeVars, optionVars, destroyVars, countVars>>

\* The variables of the other command while one command is modelled
NodesIdle ==
    /\ vm_cluster_id = "default"
    /\ cluster_vms = NoCluster
    /\ resolution = NoResolution

UpgradeIdle ==
    /\ cluster_id = "default"
    /\ transport = DOCKER_EXEC
    /\ variant = "auto"
    /\ wait_for_dcos = FALSE
    /\ installer = "oss"
    /\ containers = [c \in ClusterIds |-> NoCluster]
    /\ workspace = "empty"
    /\ pc = "not_running"
    /\ cluster = NoCluster
    /\ dcos_variant = NoVariant
    /\ detect_calls = 0
    /\ variant_log = <<>>
    /\ dcos_config = NoConfig
    /\ role_idx = 0
    /\ pending = {}
    /\ inflight = NoNode
    /\ calls = <<>>
    /\ http_checks = FALSE
    /\ wait = NoWait
    /\ error = NoError
    /\ steps = <<>>

(***************************************************************************)
(* `destroy` and `destroy-list` of the dcos-docker CLI, as its tests show   *)
(* them: `destroy --cluster-id` of a cluster that does not exist is a      *)
(* usage error, `destroy-list` reports such a cluster and goes on.         *)
(***************************************************************************)
MaxDestroys == 2

MaxListed == 2

\* the removal of every container of the cluster
destroy_cluster(resources, id) ==
    [resources EXCEPT ![id] = NoCluster]

\* a destroy that takes a missing cluster for a destroyed one
destroy_SilentWhenMissing(resources, id) ==
    [error |-> NoError,
     exit_code |-> 0,
     output |-> <<<<id>>>>,
     resources |-> destroy_cluster(resources, id)]

destroy(resources, id) ==
    LET e == check_cluster_id_exists(id, existing_cluster_ids(resources))
    IN  IF e.type # "none"
        THEN [error |-> e,
              exit_code |-> e.exit_code,
              output |-> <<e.message>>,
              resources |-> resources]
        ELSE [error |-> NoError,
              exit_code |-> 0,
              output |-> <<<<id>>>>,
              resources |-> destroy_cluster(resources, id)]

RECURSIVE destroy_list(_, _)
destroy_list(resources, ids) ==
    IF ids = <<>>
    THEN [error |-> NoError, exit_code |-> 0, output |-> <<>>,
          resources |-> resources]
    ELSE LET id == Head(ids)
             first ==
                 IF id \notin existing_cluster_ids(resources)
                 THEN [output |-> <<<<"Cluster \"", id, "\" does not exist">>>>,
                       resources |-> resources]
                 ELSE [output |-> destroy(resources, id).output,
                       resources |-> destroy(resources, id).resources]
             rest == destroy_list(first.resources, Tail(ids))
         IN  [error |-> NoError,
              exit_code |-> 0,
              output |-> first.output \o rest.output,
              resources |-> rest.resources]

\* the record of one run: what was asked, what existed, how it ended, and
\* the containers the named clusters are left with
DestroyRun(command, ids, before, r) ==
    [command |-> command,
     cluster_ids |-> ids,
     existed |-> {ids[i] : i \in 1..Len(ids)} \cap existing_cluster_ids(before),
     exit_code |-> r.exit_code,
     output |-> r.output,
     remaining |-> UNION {AllNodes(r.resources[ids[i]]) : i \in 1..Len(ids)}]

IdLists == UNION {[1..n -> ClusterIds] : n \in 0..MaxListed}

DestroyTopologies == {NoCluster, Topology(1, 0, 0), Topology(1, 1, 1)}

DestroyInit ==
    /\ containers \in [ClusterIds -> DestroyTopologies]
    /\ destroy_calls = <<>>
    /\ destroy_error = NoError

Destroy ==
    /\ pc = "not_running"
    /\ Len(destroy_calls) < MaxDestroys
    /\ \E id \in ClusterIds :
           LET r == destroy(containers, id)
           IN  /\ containers' = r.resources
               /\ destroy_error' = r.error
               /\ destroy_calls' =
                      Append(destroy_calls,
                             DestroyRun("destroy", <<id>>, containers, r))
    /\ UNCHANGED <<nodesVars, optionVars, countVars>>
    /\ UNCHANGED steps
    /\ UNCHANGED <<cluster_id, transport, variant, wait_for_dcos, installer,
                   workspace, pc, cluster, dcos_variant, detect_calls,
                   variant_log, dcos_config, role_idx, pending, inflight,
                   calls, http_checks, wait, error>>

DestroyList ==
    /\ pc = "not_running"
    /\ Len(destroy_calls) < MaxDestroys
    /\ \E ids \in IdLists :
           LET r == destroy_list(containers, ids)
           IN  /\ containers' = r.resources
               /\ destroy_error' = r.error
               /\ destroy_calls' =
                      Append(destroy_calls,
                             DestroyRun("destroy-list", ids, containers, r))
    /\ UNCHANGED <<nodesVars, optionVars, countVars>>
    /\ UNCHANGED steps
    /\ UNCHANGED <<cluster_id, transport, variant, wait_for_dcos, installer,
                   workspace, pc, cluster, dcos_variant, detect_calls,
                   variant_log, dcos_config, role_idx, pending, inflight,
                   calls, http_checks, wait, error>>

\* no `upgrade` is running; the containers are those of the environment
UpgradeNotRunning ==
    /\ cluster_id = "default"
    /\ transport = DOCKER_EXEC
    /\ variant = "auto"
    /\ wait_for_dcos = FALSE
    /\ installer = "oss"
    /\ workspace = "empty"
    /\ pc = "not_running"
    /\ cluster = NoCluster
    /\ dcos_variant = NoVariant
    /\ detect_calls = 0
    /\ variant_log = <<>>
    /\ dcos_config = NoConfig
    /\ role_idx = 0
    /\ pending = {}
    /\ inflight = NoNode
    /\ calls = <<>>
    /\ http_checks = FALSE
    /\ wait = NoWait
    /\ error = NoError
    /\ steps = <<>>

DestroyIdle ==
    /\ destroy_calls = <<>>
    /\ destroy_error = NoError

(***************************************************************************)
(* masters_option, agents_option and public_agents_option, options.py      *)
(* lines 43-82: three click options of type click.INT with default 1.      *)
(* What the user types is a sequence of characters.                        *)
(***************************************************************************)
NotGiven == [given |-> FALSE, text |-> <<>>]

Given(text) == [given |-> TRUE, text |-> text]

RoleCountOptions == <<"masters", "agents", "public_agents">>

\* default=1, lines 50, 64 and 78
DefaultCount == 1

DigitValue(ch) == CHOOSE d \in 0..9 : Digits[d + 1] = ch

RECURSIVE NatOf(_)
NatOf(digits) ==
    IF digits = <<>> THEN 0
    ELSE NatOf(SubSeq(digits, 1, Len(digits) - 1)) * 10
             + DigitValue(digits[Len(digits)])

\* int(text): an optional sign and at least one digit, or ValueError
int(text) ==
    LET signed == text # <<>> /\ text[1] \in {"-", "+"}
        digits == IF signed THEN Tail(text) ELSE text
    IN  IF digits = <<>> \/ \E i \in 1..Len(digits) : digits[i] \notin DigitChars
        THEN [raised |-> "ValueError", value |-> 0]
        ELSE [raised |-> "none",
              value |-> IF text[1] = "-" THEN 0 - NatOf(digits)
                        ELSE NatOf(digits)]

\* click.INT on the text of one option; the option has no callback and no
\* range, so every integer is handed on
INT(text) ==
    LET r == int(text)
    IN  IF r.raised = "ValueError"
        THEN [error |-> BadParameter(<<text, " is not a valid integer">>),
              value |-> 0]
        ELSE [error |-> NoError, value |-> r.value]

\* the value click hands to the command for one option
option_value(opt) ==
    IF ~opt.given THEN [error |-> NoError, value |-> DefaultCount]
    ELSE INT(opt.text)

CountTexts ==
    {<<"0">>, <<"1">>, <<"2">>, <<"-", "1">>, <<"x">>}

NoCounts == [next |-> 1, values |-> <<>>, error |-> NoError]

CountsInit ==
    /\ count_options \in [1..Len(RoleCountOptions) ->
                              {NotGiven} \cup {Given(t) : t \in CountTexts}]
    /\ counts = NoCounts

\* click processes the next of the three options
ParseCount ==
    /\ pc = "not_running"
    /\ counts.error = NoError
    /\ counts.next <= Len(RoleCountOptions)
    /\ LET r == option_value(count_options[counts.next])
       IN  counts' = IF r.error.type = "none"
                     THEN [counts EXCEPT !.next = @ + 1,
                                         !.values = Append(@, r.value)]
                     ELSE [counts EXCEPT !.error = r.error]
    /\ UNCHANGED count_options
    /\ UNCHANGED <<upgradeVars, nodesVars, optionVars, destroyVars>>

\* no role-count option is being parsed
CountsIdle ==
    /\ count_options = [i \in 1..Len(RoleCountOptions) |-> NotGiven]
    /\ counts = NoCounts

Init ==
    UpgradeInit /\ OptionsDefault /\ NodesIdle /\ DestroyIdle /\ CountsIdle

Next ==
    \/ CheckClusterIdExists
    \/ Attach
    \/ GetInstallVariant
    \/ GetConfig
    \/ \E n \in 1..(MaxMasters + MaxAgents + MaxPublicAgents) : IssueUpgrade(n)
    \/ ReturnUpgrade
    \/ RaiseUpgrade
    \/ NextRole
    \/ ComputeHttpChecks
    \/ RunPostInstallSteps
    \/ WaitPoll
    \/ WaitTimeout

Spec == Init /\ [][Next]_vars


InitNodes ==
    NodesInit /\ UpgradeIdle /\ OptionsDefault /\ DestroyIdle /\ CountsIdle

NextNodes ==
    \/ GetNode
    \/ GetNodes

SpecNodes == InitNodes /\ [][NextNodes]_vars

\* One process runs one command: an `upgrade`, or a command that resolves
\* node references.
InitCommands == Init \/ InitNodes

NextCommands ==
    \/ Next
    \/ pc = "not_running" /\ NextNodes

SpecCommands == InitCommands /\ [][NextCommands]_vars

\* `upgrade` of a cluster of one node per role, from the parsing of its
\* options on, with every combination of the options that feed get_config
ConfigInit ==
    /\ cluster_id = "default"
    /\ transport = SSH
    /\ variant \in VariantChoices
    /\ wait_for_dcos = TRUE
    /\ installer = "enterprise"
    /\ containers = [c \in ClusterIds |-> Topology(1, 1, 1)]
    /\ workspace = "empty"
    /\ pc = "validate_dcos_configuration"
    /\ cluster = NoCluster
    /\ dcos_variant = NoVariant
    /\ detect_calls = 0
    /\ variant_log = <<>>
    /\ dcos_config = NoConfig
    /\ role_idx = 0
    /\ pending = {}
    /\ inflight = NoNode
    /\ calls = <<>>
    /\ http_checks = FALSE
    /\ wait = NoWait
    /\ error = NoError
    /\ steps = <<>>
    /\ extra_config_file \in ExtraConfigFiles
    /\ extra_config = EmptyDict
    /\ security_mode \in SecurityModes \cup {"None"}
    /\ license_key \in LicenseKeys

InitConfig == ConfigInit /\ NodesIdle /\ DestroyIdle /\ CountsIdle

NextConfig ==
    \/ ValidateExtraConfig
    \/ Next

SpecConfig == InitConfig /\ [][NextConfig]_vars

InitDestroy ==
    /\ DestroyInit /\ UpgradeNotRunning /\ OptionsDefault /\ NodesIdle
    /\ CountsIdle

NextDestroy ==
    \/ Destroy
    \/ DestroyList

SpecDestroy == InitDestroy /\ [][NextDestroy]_vars

InitCounts ==
    /\ CountsInit /\ UpgradeIdle /\ OptionsDefault /\ NodesIdle
    /\ DestroyIdle

NextCounts == ParseCount

SpecCounts == InitCounts /\ [][NextCounts]_vars


(***************************************************************************)
(* Properties of `upgrade` (specification Spec).                           *)
(***************************************************************************)
Range(seq) == {seq[i] : i \in 1..Len(seq)}

\* the call of node n has been issued before position i of the log
IssuedBefore(n, i) ==
    \E j \in 1..(i - 1) : calls[j].ev = "issue" /\ calls[j].node = n

\* the call of node n has returned or raised before position i of the log
CompletedBefore(n, i) ==
    \E j \in 1..(i - 1) :
        calls[j].ev \in {"return", "raise"} /\ calls[j].node = n

\* get_install_variant has run
VariantStepDone == variant_log # <<>>

\* C1: no upgrade call of an agent is issued before the upgrade call of
\* every master has completed, and no upgrade call of a public agent is
\* issued before the upgrade call of every agent has completed.
C1_RoleBarrier ==
    \A i \in 1..Len(calls) :
        calls[i].ev = "issue" =>
            /\ calls[i].node \in cluster.agents =>
                   \A m \in cluster.masters : CompletedBefore(m, i)
            /\ calls[i].node \in cluster.public_agents =>
                   \A a \in cluster.agents : CompletedBefore(a, i)

\* a public agent's upgrade is issued in a cluster of two masters and two
\* agents
C1_Witness ==
    /\ Cardinality(cluster.masters) = 2
    /\ Cardinality(cluster.agents) = 2
    /\ \E i \in 1..Len(calls) :
           calls[i].ev = "issue" /\ calls[i].node \in cluster.public_agents

\* C2 as stated: when a node's upgrade fails, every node of its role has
\* still been attempted and the error raised names all failing nodes of the
\* role.
C2_SiblingsStillAttempted ==
    \A i \in 1..Len(calls) :
        (calls[i].ev = "raise" /\ pc = "error") =>
            /\ \A n \in NodesOfRole(cluster, calls[i].role) :
                   IssuedBefore(n, Len(calls) + 1)
            /\ error.nodes =
                   {calls[j].node : j \in {k \in 1..Len(calls) :
                                             calls[k].ev = "raise"}}

\* C2, amended: the failure of a node's upgrade ends the upgrade at once.
\* The failing call is the last call of the run, the nodes not yet visited
\* are never attempted, and the error raised is that of this one node.
C2_FailFast ==
    \A i \in 1..Len(calls) :
        calls[i].ev = "raise" =>
            /\ i = Len(calls)
            /\ pc = "error"
            /\ inflight = NoNode
            /\ error.type = "CalledProcessError"
            /\ error.nodes = {calls[i].node}

\* the first of two masters fails: the second master is never attempted
C2_Witness ==
    /\ pc = "error"
    /\ Len(calls) = 2
    /\ calls[2].ev = "raise"
    /\ calls[2].role = MASTER
    /\ pending # {}

\* C3: a readiness wait against a check that fails N times and then passes
\* ends in READY when its budget is at least N+1, and ends in a
\* NotReadyError carrying the last observed failure when its budget is
\* smaller; it never reports success without a passed check.
C3_ReadinessWait ==
    /\ wait.state = "READY" =>
           /\ wait.passed >= 1
           /\ wait.budget >= wait.fails + 1
           /\ pc = "done"
    /\ wait.state = "NOT-READY" =>
           /\ wait.budget < wait.fails + 1
           /\ wait.passed = 0
           /\ error.type = "NotReadyError"
           /\ Len(error.last_failures) = 1
           /\ error.last_failures[1].attempt = wait.budget
    /\ (pc \in {"done", "error"} /\ wait.state # "NOT-WAITING") =>
           /\ wait.budget >= wait.fails + 1 => wait.state = "READY"
           /\ wait.budget < wait.fails + 1 => wait.state = "NOT-READY"
    /\ (pc = "done" /\ wait_for_dcos) => wait.passed >= 1

\* the check failed twice and passed at the third poll
C3_Witness ==
    /\ wait.state = "READY"
    /\ wait.fails = 2
    /\ wait.attempts = 3
    /\ wait.last_failures # <<>>

\* C4: the cluster-wide HTTP checks are requested for the post-install wait
\* if and only if the transport is SSH; the node-local checks always are.
C4_HttpChecksIffSsh ==
    /\ pc \in {"run_post_install_steps", "waiting"} =>
           (http_checks <=> transport = SSH)
    /\ wait.state # "NOT-WAITING" =>
           /\ "cluster-http" \in Range(wait.checks) <=> transport = SSH
           /\ "node-local" \in Range(wait.checks)

\* a wait with the docker-exec transport, node-local checks only
C4_Witness ==
    /\ wait.state = "WAITING-READY"
    /\ transport = DOCKER_EXEC
    /\ wait.checks = <<"node-local">>

\* C8: with an explicit variant get_install_variant returns the variant of
\* that name, does not call the installer detection and leaves the
\* workspace as it was; detection runs only for "auto".
C8_ExplicitVariantSkipsDetection ==
    /\ (VariantStepDone /\ variant = "oss") =>
           /\ dcos_variant = OSS
           /\ detect_calls = 0
           /\ workspace = "empty"
           /\ "get_dcos_installer_details" \notin Range(variant_log)
    /\ (VariantStepDone /\ variant = "enterprise") =>
           /\ dcos_variant = ENTERPRISE
           /\ detect_calls = 0
           /\ workspace = "empty"
           /\ "get_dcos_installer_details" \notin Range(variant_log)
    /\ detect_calls > 0 => variant = "auto"

\* "enterprise" is given with an installer that is not an enterprise one
C8_Witness ==
    /\ VariantStepDone
    /\ variant = "enterprise"
    /\ installer = "corrupt"
    /\ dcos_variant = ENTERPRISE
    /\ pc = "get_config"

\* C9: with "auto", get_install_variant returns the variant recorded in the
\* installer's metadata.
C9_AutoReturnsRecordedVariant ==
    (VariantStepDone /\ variant = "auto") =>
        /\ installer = "enterprise" =>
               dcos_variant = ENTERPRISE /\ error.type # "SystemExit"
        /\ installer = "oss" =>
               dcos_variant = OSS /\ error.type # "SystemExit"
        /\ dcos_variant # NoVariant => installer \in {"oss", "enterprise"}

\* detection of an enterprise installer
C9_Witness ==
    /\ VariantStepDone
    /\ variant = "auto"
    /\ installer = "enterprise"
    /\ dcos_variant = ENTERPRISE
    /\ detect_calls = 1

\* get_install_variant ended with the unpack error
UnpackFailed ==
    VariantStepDone /\ variant_log[Len(variant_log)] = "raise"

\* C10 as stated: after get_install_variant with "auto" has returned or has
\* ended with an error, the workspace has been cleaned up.
C10_CleanedOnSuccessAndFailure ==
    (VariantStepDone /\ variant = "auto") => workspace # "used"

\* C10, amended: get_install_variant removes the workspace when, and only
\* when, unpacking the installer fails.  When it returns a variant or ends
\* on unreadable metadata it has not removed the workspace.
C10_CleanedOnUnpackFailureOnly ==
    (VariantStepDone /\ variant = "auto") =>
        /\ UnpackFailed => workspace = "removed"
        /\ ~UnpackFailed => workspace # "removed"
        /\ UnpackFailed <=> installer = "corrupt"

\* the unpack subprocess failed and the workspace is gone
C10_Witness ==
    /\ variant = "auto"
    /\ UnpackFailed
    /\ workspace = "removed"
    /\ pc = "error"

\* position of an effect in the log of get_install_variant
PosInLog(x) == CHOOSE i \in 1..Len(variant_log) : variant_log[i] = x

\* C11: when unpacking fails during "auto" detection, get_install_variant
\* removes the workspace, then reports the captured stderr, then raises the
\* unpack error it caught; it returns no variant.
C11_UnpackFailureHandling ==
    (VariantStepDone /\ variant = "auto" /\ installer = "corrupt") =>
        /\ {"rmtree", "echo exc.stderr", "raise"} \subseteq Range(variant_log)
        /\ PosInLog("rmtree") < PosInLog("echo exc.stderr")
        /\ PosInLog("echo exc.stderr") < PosInLog("raise")
        /\ PosInLog("raise") = Len(variant_log)
        /\ workspace = "removed"
        /\ error.type = "CalledProcessError"
        /\ error.stderr =
               get_dcos_installer_details(installer, "empty", "used").stderr
        /\ dcos_variant = NoVariant
        /\ dcos_config = NoConfig
        /\ pc = "error"

\* the unpack error has left upgrade()
C11_Witness ==
    /\ variant = "auto"
    /\ installer = "corrupt"
    /\ error.type = "CalledProcessError"
    /\ variant_log # <<>>
    /\ calls = <<>>

\* C12 as stated: on unreadable metadata get_install_variant raises a typed
\* VariantDetectionError to its caller and returns no variant.
C12_RaisesVariantDetectionError ==
    (VariantStepDone /\ variant = "auto" /\ installer = "unreadable") =>
        /\ error.type = "VariantDetectionError"
        /\ dcos_variant = NoVariant

\* C12, amended: on unreadable metadata get_install_variant prints the
\* message of the ValueError and ends the process with sys.exit(1); its
\* caller gets no variant and no VariantDetectionError.
C12_ExitsWithStatusOne ==
    (VariantStepDone /\ variant = "auto" /\ installer = "unreadable") =>
        /\ error.type = "SystemExit"
        /\ error.code = 1
        /\ variant_log[Len(variant_log)] = "sys.exit(1)"
        /\ "echo str(exc)" \in Range(variant_log)
        /\ dcos_variant = NoVariant
        /\ dcos_config = NoConfig
        /\ pc = "error"

\* the process has exited on an installer with unreadable metadata
C12_Witness ==
    /\ variant = "auto"
    /\ installer = "unreadable"
    /\ error.type = "SystemExit"
    /\ pc = "error"

\* the variant given by the user is not the variant of the installer
VariantMismatch ==
    \/ variant = "oss" /\ installer = "enterprise"
    \/ variant = "enterprise" /\ installer = "oss"

\* C13: with an explicit variant that does not match the installer the
\* command ends in an error: no node is upgraded with the mismatched
\* variant and the command does not complete.
C13_MismatchEndsInError ==
    (VariantStepDone /\ VariantMismatch) =>
        /\ calls = <<>>
        /\ pc \notin {"upgrade_nodes", "run_post_install_steps", "waiting",
                      "done"}

StepNames == [i \in 1..Len(steps) |-> steps[i].call]

\* upgrade() has made the call of this name
Called(name) == \E i \in 1..Len(steps) : steps[i].call = name

\* the positions of the log of node upgrades at which a call is issued
IssueIndexes == {i \in 1..Len(calls) : calls[i].ev = "issue"}

\* both for loops of upgrade() are exhausted
NodeLoopsCompleted ==
    \/ pc \in {"run_post_install_steps", "waiting", "done"}
    \/ Called("run_post_install_steps")

\* keyword arguments that would carry a deadline
DeadlineKeywords == {"deadline", "timeout"}

\* C22: every per-node upgrade call and the readiness wait receive the
\* caller's deadline.
C22_DeadlineReachesBlockingCalls ==
    \A i \in 1..Len(steps) :
        steps[i].call \in {"upgrade_dcos_from_path", "run_post_install_steps"}
            => steps[i].kwargs \cap DeadlineKeywords # {}

\* C24: no node's upgrade is attempted more than once, every call is for a
\* node of the cluster with the role of its role set, and when no node has
\* failed every node of the cluster has had exactly one call.
C24_EachNodeUpgradedOnce ==
    LET c == containers[cluster_id]
        issued == IssueIndexes
    IN  /\ Cardinality({calls[i].node : i \in issued}) = Cardinality(issued)
        /\ \A i \in issued :
               /\ calls[i].node \in AllNodes(c)
               /\ calls[i].node \in c.masters => calls[i].args.role = MASTER
               /\ calls[i].node \in c.agents => calls[i].args.role = AGENT
               /\ calls[i].node \in c.public_agents =>
                      calls[i].args.role = PUBLIC_AGENT
        /\ NodeLoopsCompleted =>
               /\ {calls[i].node : i \in issued} = AllNodes(c)
               /\ Cardinality(issued) = Cardinality(AllNodes(c))
               /\ \A i \in 1..Len(calls) : calls[i].ev # "raise"

\* a finished upgrade of a cluster with nodes of all three roles
C24_Witness ==
    /\ pc = "done"
    /\ cluster.agents # {}
    /\ cluster.public_agents # {}
    /\ Cardinality(cluster.masters) > 1
    /\ Cardinality(IssueIndexes) = Cardinality(AllNodes(cluster))
    /\ error = NoError

\* the calls of upgrade() before its for loops, lines 65-87
StepsBeforeLoops ==
    <<"check_cluster_id_exists", "ClusterContainers", "get_install_variant",
      "get_config">>

\* C25: upgrade() makes its calls in the order existence check, attach,
\* variant, configuration, node upgrades, post-install steps; the
\* configuration is built once, after the variant is known and before the
\* first node upgrade, and every node upgrade is given that configuration,
\* the installer and the ip-detect path of the backend.
C25_FixedStepOrder ==
    LET k == Len(steps)
        configured == Called("get_config")
    IN  /\ \A i \in 1..k :
               IF i <= Len(StepsBeforeLoops)
               THEN steps[i].call = StepsBeforeLoops[i]
               ELSE \/ steps[i].call = "upgrade_dcos_from_path"
                    \/ i = k /\ steps[i].call = "run_post_install_steps"
        /\ Cardinality({i \in 1..k : steps[i].call = "get_config"}) <= 1
        /\ Cardinality({i \in 1..k : steps[i].call = "upgrade_dcos_from_path"})
               = Cardinality(IssueIndexes)
        /\ configured =>
               /\ VariantStepDone
               /\ dcos_variant \in DCOSVariant
        /\ dcos_config =
               IF configured
               THEN get_config(cluster, extra_config, dcos_variant,
                               security_mode, license_key)
               ELSE NoConfig
        /\ \A i \in 1..Len(calls) :
               /\ configured
               /\ calls[i].args.dcos_config = dcos_config
               /\ calls[i].args.dcos_installer = installer
               /\ calls[i].args.ip_detect_path = ip_detect_path

\* a finished upgrade: four calls, one call per node, the post-install steps
C25_Witness ==
    /\ pc = "done"
    /\ Len(steps) = Len(StepsBeforeLoops) + Cardinality(AllNodes(cluster)) + 1
    /\ Cardinality(AllNodes(cluster)) >= 2
    /\ steps[Len(steps)].call = "run_post_install_steps"
    /\ calls[1].args.dcos_config = dcos_config
    /\ dcos_config # NoConfig

\* C26: the post-install steps start only after the upgrade call of every
\* node has returned without error; when the existence check, the variant
\* detection or a node's upgrade raises, no further node upgrade is issued
\* and the post-install steps do not run.
C26_PostInstallOnlyAfterAllNodes ==
    /\ NodeLoopsCompleted =>
           /\ \A n \in AllNodes(containers[cluster_id]) :
                  \E i \in 1..Len(calls) :
                      calls[i].ev = "return" /\ calls[i].node = n
           /\ \A i \in 1..Len(calls) : calls[i].ev # "raise"
           /\ inflight = NoNode
           /\ pending = {}
    /\ wait # NoWait => Called("run_post_install_steps")
    /\ error.type \in {"BadParameter", "CalledProcessError", "SystemExit"} =>
           /\ pc = "error"
           /\ wait = NoWait
           /\ ~Called("run_post_install_steps")
           /\ inflight = NoNode
           /\ steps[Len(steps)].call \in
                  {"check_cluster_id_exists", "get_install_variant",
                   "upgrade_dcos_from_path"}
           /\ calls # <<>> =>
                  /\ calls[Len(calls)].ev = "raise"
                  /\ \A i \in 1..(Len(calls) - 1) : calls[i].ev # "raise"
                  /\ steps[Len(steps)].call = "upgrade_dcos_from_path"

\* the upgrade of the first master raises while other nodes are waiting
C26_Witness ==
    /\ pc = "error"
    /\ Len(calls) = 2
    /\ calls[2].ev = "raise"
    /\ role_idx = 1
    /\ pending # {}
    /\ cluster.agents # {}
    /\ wait = NoWait
    /\ ~Called("run_post_install_steps")

\* C29: whenever upgrade() calls get_install_variant with "auto", it hands
\* it an installer path, so the assertion of get_install_variant holds and
\* the detection runs on that installer.
C29_AutoAlwaysHasInstaller ==
    (variant = "auto" /\ Called("get_install_variant")) =>
        /\ installer # NoInstaller
        /\ installer \in InstallerKinds
        /\ error.type # "AssertionError"
        /\ detect_calls = 1
        /\ "get_dcos_installer_details" \in Range(variant_log)

\* "auto" with an OSS installer: the detection has run
C29_Witness ==
    /\ variant = "auto"
    /\ installer = "oss"
    /\ "get_install_variant" \in Range(StepNames)
    /\ detect_calls = 1
    /\ dcos_variant = OSS
    /\ pc = "get_config"

(***************************************************************************)
(* Properties of the options of `upgrade` (specification SpecConfig).      *)
(***************************************************************************)
\* get_config has returned the manifest
ConfigBuilt == dcos_config # NoConfig

\* C14: whenever security_mode is set, the manifest's security value equals
\* it, whatever extra_config carries under that key.
C14_SecurityModeOverridesExtraConfig ==
    (ConfigBuilt /\ security_mode # "None") =>
        /\ "security" \in DOMAIN dcos_config
        /\ dcos_config["security"] = [kind |-> "str", val |-> security_mode]

\* extra_config says "disabled", the option says "strict"
C14_Witness ==
    /\ ConfigBuilt
    /\ extra_config_file = File(SecurityDisabledMap)
    /\ "security" \in DOMAIN extra_config
    /\ extra_config["security"] = [kind |-> "str", val |-> "disabled"]
    /\ security_mode = "strict"
    /\ dcos_config["security"] = [kind |-> "str", val |-> "strict"]

\* C15, as stated: every key of extra_config is in the manifest with the
\* value extra_config gives it.
C15_EveryExtraKeyVerbatim ==
    ConfigBuilt =>
        \A k \in DOMAIN extra_config :
            k \in DOMAIN dcos_config /\ dcos_config[k] = extra_config[k]

\* the keys an explicit option writes after extra_config is merged
KeysSetByOptions ==
    (IF security_mode # "None" THEN {"security"} ELSE {})
        \cup (IF dcos_variant = ENTERPRISE /\ license_key # "None"
              THEN {"license_key_contents"} ELSE {})

\* C15: every key of extra_config that no explicit option sets is in the
\* manifest with the value extra_config gives it, a generated default of the
\* same key is overridden, and an unknown key is passed through.
C15_ExtraKeysOverrideGenerated ==
    ConfigBuilt =>
        /\ \A k \in DOMAIN extra_config :
               /\ k \in DOMAIN dcos_config
               /\ k \notin KeysSetByOptions => dcos_config[k] = extra_config[k]
        /\ extra_config_file = File(CredentialsMap) =>
               dcos_config["cluster_docker_credentials_enabled"]
                   = [kind |-> "bool", val |-> "true"]
        /\ extra_config_file = File(ClusterNameMap) =>
               dcos_config["cluster_name"] = [kind |-> "str", val |-> "mine"]

\* extra_config overrides the generated cluster_name
C15_Witness ==
    /\ ConfigBuilt
    /\ extra_config_file = File(ClusterNameMap)
    /\ base_config(cluster, dcos_variant).cluster_name
           # extra_config["cluster_name"]
    /\ dcos_config["cluster_name"] = extra_config["cluster_name"]

\* C16: a license key is inlined only when the variant is ENTERPRISE; with
\* OSS it is ignored, the manifest is the one built without a license key,
\* and get_config raises nothing.
C16_LicenseOnlyForEnterprise ==
    (ConfigBuilt /\ license_key # "None") =>
        /\ dcos_variant = ENTERPRISE =>
               /\ "license_key_contents" \in DOMAIN dcos_config
               /\ dcos_config["license_key_contents"]
                      = [kind |-> "str", val |-> read_text(license_key)]
        /\ dcos_variant = OSS =>
               /\ dcos_config =
                      with_security(Merge(base_config(cluster, OSS),
                                          extra_config), security_mode)
               /\ "license_key_contents" \in DOMAIN dcos_config =>
                      /\ "license_key_contents" \in DOMAIN extra_config
                      /\ dcos_config["license_key_contents"]
                             = extra_config["license_key_contents"]
               /\ calls = <<>> => error = NoError

\* an OSS upgrade given a license key
C16_Witness ==
    /\ ConfigBuilt
    /\ dcos_variant = OSS
    /\ license_key = "license.txt"
    /\ extra_config_file = NoFile
    /\ "license_key_contents" \notin DOMAIN dcos_config
    /\ pc = "upgrade_nodes"
    /\ error = NoError

\* the callback of --extra-config has run on a file
ExtraConfigValidated ==
    /\ extra_config_file.given
    /\ pc # "validate_dcos_configuration"

\* C19: a file whose YAML content is no mapping ends in the bad-parameter
\* error "is not a valid DC/OS configuration", a file is accepted only when
\* its content is a mapping or empty, and the mapping is what is returned.
C19_NonMappingRejected ==
    LET content == extra_config_file.content
        loaded == yaml_load(content)
    IN  (ExtraConfigValidated /\ loaded.kind # "YAMLError") =>
            /\ loaded.kind \notin {"map", "null"} =>
                   /\ pc = "error"
                   /\ error.type = "BadParameter"
                   /\ error.message =
                          <<"\"", content,
                            "\" is not a valid DC/OS configuration">>
                   /\ dcos_config = NoConfig
            /\ loaded.kind = "map" =>
                   /\ extra_config = dict(loaded).value
                   /\ DOMAIN extra_config # {}
            /\ loaded.kind = "null" => extra_config = EmptyDict

\* texts that are not YAML
UnparsableContents == {<<"@">>, <<"[", "a", "b">>}

\* C20: a file whose content is not parsable YAML ends in the bad-parameter
\* error "is not valid YAML" with exit code 2, and the command performs no
\* cluster operation.
C20_InvalidYamlRejected ==
    (ExtraConfigValidated /\ extra_config_file.content \in UnparsableContents)
        =>
        /\ pc = "error"
        /\ error.type = "BadParameter"
        /\ error.exit_code = 2
        /\ error.message =
               <<"\"", extra_config_file.content, "\" is not valid YAML">>
        /\ extra_config = EmptyDict
        /\ cluster = NoCluster
        /\ variant_log = <<>>
        /\ dcos_config = NoConfig
        /\ calls = <<>>
        /\ wait = NoWait

\* the file of the test: "@"
C20_Witness ==
    /\ extra_config_file = File(<<"@">>)
    /\ pc = "error"
    /\ error.type = "BadParameter"
    /\ error.exit_code = 2

(***************************************************************************)
(* Properties of `destroy` (specification SpecDestroy).                    *)
(***************************************************************************)
\* C18, as stated: no run of destroy ends in an error, whether the cluster
\* exists, was destroyed before or never existed, and every run leaves no
\* container of the clusters it names.
C18_DestroyNeverRaises ==
    \A i \in 1..Len(destroy_calls) :
        /\ destroy_calls[i].exit_code = 0
        /\ destroy_calls[i].remaining = {}

\* C18: every run of destroy or destroy-list leaves no container of the
\* clusters it names; destroy-list never ends in an error and reports each
\* cluster that does not exist; destroy ends in the usage error (exit code
\* 2) exactly when the cluster does not exist, a second destroy of the same
\* cluster included.
C18_DestroyLeavesNothing ==
    /\ \A i \in 1..Len(destroy_calls) :
           LET run == destroy_calls[i]
           IN  /\ run.remaining = {}
               /\ run.command = "destroy-list" =>
                      /\ run.exit_code = 0
                      /\ \A k \in 1..Len(run.cluster_ids) :
                             run.cluster_ids[k] \notin run.existed =>
                                 \E o \in 1..Len(run.output) :
                                     run.output[o] =
                                         <<"Cluster \"", run.cluster_ids[k],
                                           "\" does not exist">>
               /\ run.command = "destroy" =>
                      /\ run.existed = {} <=> run.exit_code = 2
                      /\ run.existed # {} <=> run.exit_code = 0
                      /\ run.exit_code = 2 =>
                             run.output =
                                 <<<<"Cluster \"", run.cluster_ids[1],
                                     "\" does not exist">>>>
    /\ \A i, j \in 1..Len(destroy_calls) :
           (/\ i < j
            /\ destroy_calls[i].command = "destroy"
            /\ destroy_calls[j].command = "destroy"
            /\ destroy_calls[i].cluster_ids = destroy_calls[j].cluster_ids)
               => destroy_calls[j].exit_code = 2
    /\ destroy_calls # <<>> =>
           LET last == destroy_calls[Len(destroy_calls)]
           IN  /\ \A k \in 1..Len(last.cluster_ids) :
                      AllNodes(containers[last.cluster_ids[k]]) = {}
               /\ destroy_error.type = "BadParameter" <=> last.exit_code = 2

\* destroy of an existing cluster, then destroy of the same cluster again
C18_Witness ==
    /\ Len(destroy_calls) = 2
    /\ destroy_calls[1].command = "destroy"
    /\ destroy_calls[2].command = "destroy"
    /\ destroy_calls[1].cluster_ids = <<"default">>
    /\ destroy_calls[2].cluster_ids = <<"default">>
    /\ destroy_calls[1].existed = {"default"}
    /\ destroy_calls[1].exit_code = 0
    /\ destroy_calls[2].exit_code = 2
    /\ AllNodes(containers["default"]) = {}

(***************************************************************************)
(* Properties of the role-count options (specification SpecCounts).        *)
(***************************************************************************)
\* click has accepted the three options
CountsAccepted ==
    /\ counts.next > Len(RoleCountOptions)
    /\ counts.error = NoError

\* C21: every accepted triple of role counts gives a valid cluster: at least
\* one master, so a non-empty masters set, and no negative count of agents
\* or public agents.
C21_AcceptedCountsAreValid ==
    CountsAccepted =>
        /\ counts.values[1] >= 1
        /\ counts.values[2] >= 0
        /\ counts.values[3] >= 0
        /\ Topology(counts.values[1], counts.values[2],
                    counts.values[3]).masters # {}

(***************************************************************************)
(* Properties of node resolution (specification SpecNodes).                *)
(***************************************************************************)
\* C23: no step of `upgrade` and no node resolution changes the resource
\* map of the backend: the role sets of every cluster, and with them the
\* addresses of their nodes, stay as they are, on success and on failure.
C23_ResourceMapUnchanged ==
    [][containers' = containers /\ cluster_vms' = cluster_vms]_vars

\* an upgrade that failed at a node: the map still holds the cluster that was
\* attached
C23_Witness ==
    /\ pc = "error"
    /\ calls # <<>>
    /\ calls[Len(calls)].ev = "raise"
    /\ cluster = containers[cluster_id]
    /\ AllNodes(containers[cluster_id]) # {}

\* the reference given to get_node
GivenReference == resolution.node_references[1]

\* "<role>_<index>" of a VM
E2eReference(v) == to_dict(cluster_vms, v).e2e_reference

C6_AnyCaseResolves ==
    resolution.op = "get_node" =>
        \A v \in vm_names(cluster_vms) :
            Upper(GivenReference) = Upper(E2eReference(v))
                => resolution.node = {to_node(v)}

\* C6, amended: the symbolic reference is matched in two spellings, as the
\* inspect view gives it (lower case) and in all upper case; a mixed-case
\* spelling such as "Master_0" resolves to no node.
C6_LowerAndUpperResolve ==
    resolution.op = "get_node" =>
        \A v \in vm_names(cluster_vms) :
            /\ GivenReference \in {E2eReference(v), Upper(E2eReference(v))}
                   => resolution.node = {to_node(v)}
            /\ (/\ Upper(GivenReference) = Upper(E2eReference(v))
                /\ GivenReference \notin {E2eReference(v),
                                          Upper(E2eReference(v))})
                   => resolution.node = {}

\* "PUBLIC_AGENT_0" resolves to the public agent
C6_Witness ==
    /\ resolution.op = "get_node"
    /\ \E v \in cluster_vms.public_agents :
           /\ GivenReference = Upper(E2eReference(v))
           /\ GivenReference # E2eReference(v)
           /\ resolution.node = {to_node(v)}

\* the strings that name VM v
NamesOf(v) ==
    {E2eReference(v), Upper(E2eReference(v)), IpAddress(v), VmName(v)}

Unmatched(ref) == \A v \in vm_names(cluster_vms) : ref \notin NamesOf(v)

\* C7: for a reference that matches no node get_node returns no node, and
\* get_nodes raises an error that names the reference and the cluster id
\* and returns no node set.
C7_NoSuchNode ==
    /\ (resolution.op = "get_node" /\ Unmatched(GivenReference)) =>
           resolution.node = {}
    /\ (/\ resolution.op = "get_nodes"
        /\ \E i \in 1..Len(resolution.node_references) :
               Unmatched(resolution.node_references[i])) =>
           /\ resolution.raised
           /\ resolution.nodes = {}
           /\ resolution.error.type = "BadParameter"
           /\ resolution.error.message.cluster_id = vm_cluster_id
           /\ resolution.error.message.node_reference
                  \in Range(resolution.node_references)
           /\ Unmatched(resolution.error.message.node_reference)

\* the first reference names a node, the second names none
C7_Witness ==
    /\ resolution.op = "get_nodes"
    /\ Len(resolution.node_references) = 2
    /\ ~Unmatched(resolution.node_references[1])
    /\ Unmatched(resolution.node_references[2])
    /\ resolution.raised
    /\ resolution.error.message.node_reference = resolution.node_references[2]
    /\ vm_cluster_id = "other"

\* the VMs of the cluster that a reference names
Accepting(ref) == {v \in vm_names(cluster_vms) : ref \in NamesOf(v)}

\* C27: at most one VM of the cluster accepts a reference, the names of two
\* VMs have no string in common, and get_node has one possible result
\* whatever the order in which it visits the VM names.
C27_ResolutionIsOrderIndependent ==
    /\ \A v, w \in vm_names(cluster_vms) :
           v # w => NamesOf(v) \cap NamesOf(w) = {}
    /\ resolution.op = "get_node" =>
           /\ Cardinality(Accepting(GivenReference)) <= 1
           /\ Cardinality(get_node(cluster_vms, GivenReference)) = 1
           /\ get_node(cluster_vms, GivenReference) = {resolution.node}

\* the IP address of the last VM of a cluster with nodes of every role
C27_Witness ==
    /\ resolution.op = "get_node"
    /\ Cardinality(cluster_vms.masters) = 2
    /\ cluster_vms.agents # {}
    /\ \E v \in cluster_vms.public_agents :
           /\ GivenReference = IpAddress(v)
           /\ resolution.node = {to_node(v)}
           /\ Accepting(GivenReference) = {v}

\* C28: get_nodes returns a set only when every reference resolves, and the
\* set then holds exactly the nodes the references name, one entry per node;
\* otherwise it raises for the first reference without a node and returns
\* no set.
C28_AllOrNothing ==
    resolution.op = "get_nodes" =>
        LET refs == resolution.node_references
            unresolved == {i \in 1..Len(refs) : Unmatched(refs[i])}
            named == UNION {Accepting(refs[i]) : i \in 1..Len(refs)}
        IN  IF unresolved = {}
            THEN /\ ~resolution.raised
                 /\ resolution.error = NoError
                 /\ resolution.nodes = {to_node(v) : v \in named}
                 /\ Cardinality(resolution.nodes) = Cardinality(named)
                 /\ named \subseteq vm_names(cluster_vms)
            ELSE LET first == CHOOSE i \in unresolved :
                                  \A j \in unresolved : i <= j
                 IN  /\ resolution.raised
                     /\ resolution.nodes = {}
                     /\ resolution.error.type = "BadParameter"
                     /\ resolution.error.message.node_reference = refs[first]

\* two different references of the same node give a set of one node
C28_Witness ==
    /\ resolution.op = "get_nodes"
    /\ Len(resolution.node_references) = 2
    /\ resolution.node_references[1] # resolution.node_references[2]
    /\ Accepting(resolution.node_references[1])
           = Accepting(resolution.node_references[2])
    /\ Accepting(resolution.node_references[1]) # {}
    /\ ~resolution.raised
    /\ Cardinality(resolution.nodes) = 1

\* the default of --node, _nodes.py line 21
DefaultNodeReferences == <<<<"m", "a", "s", "t", "e", "r", "_", "0">>>>

\* C30: in a cluster with at least one master the default reference
\* "master_0" resolves to exactly one node, and that node is a master.
C30_DefaultReferenceIsAMaster ==
    /\ (/\ resolution.op = "get_node"
        /\ GivenReference = DefaultNodeReferences[1]
        /\ cluster_vms.masters # {}) =>
           /\ \E v \in cluster_vms.masters : resolution.node = {to_node(v)}
           /\ Cardinality(Accepting(GivenReference)) = 1
    /\ (/\ resolution.op = "get_nodes"
        /\ resolution.node_references = DefaultNodeReferences
        /\ cluster_vms.masters # {}) =>
           /\ ~resolution.raised
           /\ Cardinality(resolution.nodes) = 1
           /\ \E v \in cluster_vms.masters : resolution.nodes = {to_node(v)}

\* no --node is given for a cluster of two masters
C30_Witness ==
    /\ resolution.op = "get_nodes"
    /\ resolution.node_references = DefaultNodeReferences
    /\ Cardinality(cluster_vms.masters) = 2
    /\ Cardinality(resolution.nodes) = 1
    /\ \E v \in cluster_vms.masters :
           /\ IndexInRole(cluster_vms, v) = 0
           /\ resolution.nodes = {to_node(v)}

====
